---- MODULE Spec2Model ----
(***************************************************************************)
(* Compilation pipeline of typesafe (src/src/main.rs): the consumer        *)
(* (TypesafeApp, the egui update loop) starts compile workers, every       *)
(* worker runs the engine (tectonic), conditionally the bibliography tool  *)
(* (biber) and the engine again, and reports through one mpsc channel that *)
(* the consumer drains with try_recv.                                      *)
(***************************************************************************)
EXTENDS Integers, Sequences, FiniteSets, TLC

(* ---------------------------------------------------------------------- *)
(* Bounds                                                                  *)
(* ---------------------------------------------------------------------- *)

\* number of compile() calls explored (one worker thread per call)
MaxCompiles == 2

\* messages in flight in the channel explored in the system specification
MaxQueue == 2

Workers == 1..MaxCompiles

(* ---------------------------------------------------------------------- *)
(* Values                                                                  *)
(* ---------------------------------------------------------------------- *)

\* Option<String>: None is the empty sequence, Some(x) is <<x>>
None == <<>>

Some(x) == <<x>>

\* source texts, as sequences of tokens; "BOM" is U+FEFF
Docs == { <<"hello">>, <<"BOM", "biblatex", "cite">> }

\* String::contains("biblatex")
Contains(s, tok) == \E i \in 1..Len(s) : s[i] = tok

FilePaths == { "doc.tex" }

RootPath == "main.tex"

\* ExitStatus::code() of a child that was killed by a signal is None
NoCode == -2

ExitCodes == { 0, 1, NoCode }

\* lines of child-process output, as sequences of tokens
ErrLine == << "error", ":", " ", "doc.tex", ":", "4", "2", ":", " ", "Undefined control sequence" >>

WarnLine == << "warning", ":", " ", "Overfull hbox" >>

BiberResults == { "spawn_failed", "ok", "nonzero" }

\* std::process::Output of Command::output(), or the io::Error of a failed spawn
NoOutput == [ spawned |-> FALSE, code |-> NoCode, stdout |-> <<>>, stderr |-> <<>> ]

Out(code, stdout, stderr) == [ spawned |-> TRUE, code |-> code, stdout |-> stdout, stderr |-> stderr ]

Outputs ==
    { NoOutput } \cup
    { Out(c, so, se) : c \in ExitCodes, so \in { <<>>, <<ErrLine>> }, se \in { <<>>, <<WarnLine>> } }

\* output.as_ref().map(|o| o.status.success()).unwrap_or(false)
StatusSuccess(o) == o.spawned /\ o.code = 0

\* contents of <stem>.bcf and concatenated bytes of the sorted *.bib files
BcfContents == { "bcfA", "bcfB" }

BibContents == { "", "bibA" }

Unreadable == "unreadable"

\* String::new()
EmptyHash == ""

\* format!("{:x}", Sha256 of the bytes): never the empty string
Sha256Hex(bytes) ==
    CASE bytes = ""     -> "e3b0c442"
      [] bytes = "bcfA" -> "5d1fbcfa"
      [] bytes = "bcfB" -> "9a70bcfb"
      [] bytes = "bibA" -> "c41db1ba"

\* hash_file: the hex digest, or String::new() when the file cannot be read
hash_file(read) == IF read = Unreadable THEN EmptyHash ELSE Sha256Hex(read)

(* ---------------------------------------------------------------------- *)
(* Diagnostic parsing                                                      *)
(* ---------------------------------------------------------------------- *)

AsciiDigits == { "0", "1", "2", "3", "4", "5", "6", "7", "8", "9" }

\* the regex class \d is Unicode-aware: it also matches non-ASCII digits
UnicodeDigits == { "U+0663" }

IsDigit(t) == t \in AsciiDigits \cup UnicodeDigits

DigitValue(t) ==
    CASE t = "0" -> 0 [] t = "1" -> 1 [] t = "2" -> 2 [] t = "3" -> 3 [] t = "4" -> 4
      [] t = "5" -> 5 [] t = "6" -> 6 [] t = "7" -> 7 [] t = "8" -> 8 [] t = "9" -> 9

RECURSIVE DecimalValue(_)
DecimalValue(ds) ==
    IF ds = <<>> THEN 0
    ELSE 10 * DecimalValue(SubSeq(ds, 1, Len(ds) - 1)) + DigitValue(ds[Len(ds)])

\* str::parse::<usize>: Ok only for ASCII digits (overflow is out of the model's range)
ParsesAsUsize(ds) == ds # <<>> /\ \A i \in 1..Len(ds) : ds[i] \in AsciiDigits

\* the regex  error: .+:(\d+): (.*)  on a line of tokens.
\* "error: " can start at s
ErrorAt(line, s) ==
    s + 2 <= Len(line) /\ line[s] = "error" /\ line[s + 1] = ":" /\ line[s + 2] = " "

\* ":(\d+): " can follow a .+ that ends at k, the digits ending at d
NumberAt(line, k, d) ==
    /\ k + 2 <= d /\ d + 2 <= Len(line)
    /\ line[k + 1] = ":"
    /\ \A i \in (k + 2)..d : IsDigit(line[i])
    /\ line[d + 1] = ":" /\ line[d + 2] = " "

\* regex.captures: the leftmost match, .+ greedy; <<digits, message>>
Captures(line) ==
    LET n == Len(line)
        s == CHOOSE x \in 1..n :
                 /\ ErrorAt(line, x) /\ \E k \in (x + 3)..n, d \in (x + 5)..n : NumberAt(line, k, d)
                 /\ \A y \in 1..(x - 1) :
                      ~(ErrorAt(line, y) /\ \E k \in (y + 3)..n, d \in (y + 5)..n : NumberAt(line, k, d))
        k == CHOOSE x \in (s + 3)..n :
                 /\ \E d \in (x + 2)..n : NumberAt(line, x, d)
                 /\ \A y \in (x + 1)..n : ~\E d \in (y + 2)..n : NumberAt(line, y, d)
        d == CHOOSE x \in (k + 2)..n : NumberAt(line, k, x)
    IN  << SubSeq(line, k + 2, d), SubSeq(line, d + 3, n) >>

\* regex.captures(line) is Some: "error: " at s, .+ is s+3..k, the digits are k+2..d
Matches(line) ==
    \E s \in 1..Len(line), k \in 1..Len(line), d \in 1..Len(line) :
        ErrorAt(line, s) /\ s + 3 <= k /\ NumberAt(line, k, d)

\* the body of the loop over stdout.lines().chain(stderr.lines())
RECURSIVE ParseDiagnostics(_, _)
ParseDiagnostics(lines, target_path) ==
    IF lines = <<>> THEN <<>>
    ELSE LET line == Head(lines)
             rest == ParseDiagnostics(Tail(lines), target_path)
         IN  IF Matches(line) /\ ParsesAsUsize(Captures(line)[1])
             THEN << [ line    |-> DecimalValue(Captures(line)[1]),
                       message |-> Captures(line)[2],
                       file    |-> target_path ] >> \o rest
             ELSE rest

(* ---------------------------------------------------------------------- *)
(* State                                                                   *)
(* ---------------------------------------------------------------------- *)

VARIABLES
    editor_content,      \* TypesafeApp.editor_content
    file_path,           \* TypesafeApp.file_path
    root_file,           \* TypesafeApp.root_file : Option<String>
    is_compiling,        \* TypesafeApp.is_compiling
    pending_autocompile, \* TypesafeApp.pending_autocompile
    last_bcf_hash,       \* TypesafeApp.last_bcf_hash
    last_bib_hash,       \* TypesafeApp.last_bib_hash
    compile_rx,          \* the mpsc channel compile_tx -> compile_rx, oldest message first
    worker,              \* the threads spawned by compile(), by spawn order
    spawned,             \* number of compile() calls so far
    last_success,        \* the worker whose Success the consumer processed last (0: none)
    handled,             \* per worker, the sequence numbers of its messages the consumer handled
    polling,             \* update() is inside its  while let Ok(msg) = try_recv()  loop
    backlog,             \* the messages that were in the channel when that loop began
    synctex,             \* the lines of <stem>.synctex.gz next to pdf_path (None: no such file)
    page_sizes,          \* TypesafeApp.page_sizes: page index -> height in points (None: no entry)
    page_count,          \* TypesafeApp.page_count
    current_page,        \* TypesafeApp.current_page
    pending_scroll_target, \* TypesafeApp.pending_scroll_target : Option<(usize, f32)>
    cursor,              \* the line (from 0) the editor's selection was put on by a double click
    last_query           \* the last search: its arguments and whether it used a record of the index

\* the fields and the file that the two searches read and write
search_vars == << synctex, page_sizes, page_count, current_page, pending_scroll_target, cursor,
                 last_query >>

vars == << editor_content, file_path, root_file, is_compiling, pending_autocompile,
           last_bcf_hash, last_bib_hash, compile_rx, worker, spawned, last_success,
           handled, polling, backlog, search_vars >>

consumer_flags == << editor_content, file_path, root_file, pending_autocompile >>

(* ---------------------------------------------------------------------- *)
(* Messages: enum CompilationMsg                                           *)
(* ---------------------------------------------------------------------- *)

Msg(type, w) ==
    [ type |-> type, w |-> w, text |-> "", code |-> None, stdout |-> None, stderr |-> None,
      diags |-> <<>>, pdf |-> "", bcf |-> EmptyHash, bib |-> EmptyHash,
      \* position among the messages of its sender (set by Send)
      seq |-> 0 ]

MsgStart(w) == Msg("Start", w)

MsgLog(w, text) == [ Msg("Log", w) EXCEPT !.text = text ]

MsgDiagnostics(w, diags) == [ Msg("Diagnostics", w) EXCEPT !.diags = diags ]

MsgSuccess(w, pdf, bcf, bib) == [ Msg("Success", w) EXCEPT !.pdf = pdf, !.bcf = bcf, !.bib = bib ]

MsgError(w, text) == [ Msg("Error", w) EXCEPT !.text = text ]

\* format!("Compilation failed with code: {}\n\nSTDOUT:\n{}\n\nSTDERR:\n{}", ...)
MsgCompilationFailed(w, code, stdout, stderr) ==
    [ Msg("Error", w) EXCEPT !.text = "Compilation failed with code: ",
                             !.code = Some(code), !.stdout = Some(stdout), !.stderr = Some(stderr) ]

Terminal(type) == type \in { "Success", "Error" }

(* ---------------------------------------------------------------------- *)
(* Worker threads                                                          *)
(* ---------------------------------------------------------------------- *)

\* a thread that compile() has not spawned yet
NoWorker ==
    [ pc |-> "unborn",
      \* the values moved into the closure
      content |-> <<>>, file_path |-> "", root_file |-> None,
      last_bcf_hash |-> EmptyHash, last_bib_hash |-> EmptyHash,
      \* locals of the closure
      target_path |-> "", output |-> NoOutput,
      current_bcf_hash |-> EmptyHash, current_bib_hash |-> EmptyHash,
      \* history of the run
      sent |-> <<>>, write |-> "none", writes |-> 0, engine_runs |-> 0, biber |-> "none",
      bcf_seen |-> "none", bib_seen |-> "none", pdf_exists |-> "unchecked",
      first_success |-> "none", bcf_exists |-> "unchecked",
      written_content |-> None, written_path |-> "", engine_arg |-> "",
      first_output |-> NoOutput,
      after |-> 0 ]

\* the state of the closure when std::thread::spawn returns
NewWorker(content, path) ==
    [ NoWorker EXCEPT !.pc = "start",
                      !.content = content,
                      !.file_path = path,
                      !.root_file = root_file,
                      !.last_bcf_hash = last_bcf_hash,
                      !.last_bib_hash = last_bib_hash,
                      !.after = last_success ]

Alive(w) == worker[w].pc \notin { "unborn", "done" }

\* tx.send(msg) by worker w, together with the update u of its locals
Send(w, msg, u) ==
    /\ compile_rx' = Append(compile_rx, [ msg EXCEPT !.seq = Len(u.sent) + 1 ])
    /\ worker' = [ worker EXCEPT ![w] = [ u EXCEPT !.sent = Append(u.sent, msg.type) ] ]

Local(w, u) ==
    /\ worker' = [ worker EXCEPT ![w] = u ]
    /\ UNCHANGED compile_rx

consumer_vars == << editor_content, file_path, root_file, is_compiling, pending_autocompile,
                    last_bcf_hash, last_bib_hash, spawned, last_success,
                    handled, polling, backlog, search_vars >>

\* mutant: the open file is compiled whatever the root file is
TargetPathOfOpenFile(root, path) == IF path # "" THEN path ELSE "temp.tex"

\* "Determine what to compile"
TargetPath(root, path) ==
    IF root # None THEN root[1]
    ELSE IF path # "" THEN path
    ELSE "temp.tex"

\* Path::file_stem of the target
FileStem(path) ==
    CASE path = "doc.tex"  -> "doc"
      [] path = "ch1.tex"  -> "ch1"
      [] path = "main.tex" -> "main"
      [] path = "temp.tex" -> "temp"

\* parent_dir.join(format!("{}.pdf", stem))
PdfPath(path) ==
    CASE FileStem(path) = "doc"  -> "doc.pdf"
      [] FileStem(path) = "ch1"  -> "ch1.pdf"
      [] FileStem(path) = "main" -> "main.pdf"
      [] FileStem(path) = "temp" -> "temp.pdf"

\* let save_path = if file_path.is_empty() { "temp.tex" } else { file_path.clone() }
SavePath(path) == IF path = "" THEN "temp.tex" ELSE path

\* mutant: one byte-order-mark is removed
CleanContentOnce(content) ==
    IF content # <<>> /\ Head(content) = "BOM" THEN Tail(content) ELSE content

\* content.trim_start_matches('\u{feff}')
RECURSIVE CleanContent(_)
CleanContent(content) ==
    IF content # <<>> /\ Head(content) = "BOM" THEN CleanContent(Tail(content)) ELSE content

\* mutant: the thread reads the consumer's fingerprints when it decides
SharedLastHashes(w) == << last_bcf_hash, last_bib_hash >>

\* the fingerprints moved into the closure
ClosureLastHashes(w) == << worker[w].last_bcf_hash, worker[w].last_bib_hash >>

\* content.contains("biblatex")
HasBiblatex(content) == Contains(content, "biblatex")

\* mutant: the thread goes on after a failed write
PcAfterWriteContinue(ok) == "log1"

\* what the thread does after std::fs::write returned
PcAfterWrite(ok) == IF ok THEN "log1" ELSE "done"

\* mutant: the test without the non-empty guard
SkipBiberNoEmptyGuard(current_bcf, current_bib, last_bcf, last_bib) ==
    current_bcf = last_bcf /\ current_bib = last_bib

\* the test that clears run_biber
SkipBiber(current_bcf, current_bib, last_bcf, last_bib) ==
    current_bcf = last_bcf /\ current_bib = last_bib /\ current_bcf # EmptyHash

\* mutant: the engine is re-run only after a successful run of the tool
PcAfterBiberRerunOnSuccessOnly(result) == IF result = "ok" THEN "relog" ELSE "diag"

\* mutant: the engine is re-run also when the tool could not be spawned
PcAfterBiberAlwaysRerun(result) == "relog"

\* what the thread does after biber_cmd.output() returned
PcAfterBiber(result) == IF result = "spawn_failed" THEN "diag" ELSE "relog"

\* mutant: a missing artifact is only logged
TerminalMsgLogsMissingPdf(w, output, pdf_exists, target, bcf, bib) ==
    IF output.spawned /\ output.code = 0
    THEN IF pdf_exists
         THEN MsgSuccess(w, PdfPath(target), bcf, bib)
         ELSE MsgLog(w, "PDF file not found after compilation")
    ELSE IF output.spawned
         THEN MsgCompilationFailed(w, IF output.code = NoCode THEN -1 ELSE output.code,
                                   output.stdout, output.stderr)
         ELSE MsgError(w, "Failed to run tectonic: ")

\* mutant: the artifact is not looked for
TerminalMsgIgnoresArtifact(w, output, pdf_exists, target, bcf, bib) ==
    IF output.spawned /\ output.code = 0
    THEN MsgSuccess(w, PdfPath(target), bcf, bib)
    ELSE IF output.spawned
         THEN MsgCompilationFailed(w, IF output.code = NoCode THEN -1 ELSE output.code,
                                   output.stdout, output.stderr)
         ELSE MsgError(w, "Failed to run tectonic: ")

\* mutant: the failure text holds stdout twice and no stderr
TerminalMsgDropsStderr(w, output, pdf_exists, target, bcf, bib) ==
    IF output.spawned /\ output.code = 0
    THEN IF pdf_exists
         THEN MsgSuccess(w, PdfPath(target), bcf, bib)
         ELSE MsgError(w, "PDF file not found after compilation")
    ELSE IF output.spawned
         THEN MsgCompilationFailed(w, IF output.code = NoCode THEN -1 ELSE output.code,
                                   output.stdout, output.stdout)
         ELSE MsgError(w, "Failed to run tectonic: ")

\* the final match on output
TerminalMsg(w, output, pdf_exists, target, bcf, bib) ==
    IF output.spawned /\ output.code = 0
    THEN IF pdf_exists
         THEN MsgSuccess(w, PdfPath(target), bcf, bib)
         ELSE MsgError(w, "PDF file not found after compilation")
    ELSE IF output.spawned
         THEN MsgCompilationFailed(w, IF output.code = NoCode THEN -1 ELSE output.code,
                                   output.stdout, output.stderr)
         ELSE MsgError(w, "Failed to run tectonic: ")

\* mutant: the exit status of the first engine run is not looked at
EntersBibPhaseIgnoresStatus(has_biblatex, first_ok, bcf_exists) ==
    has_biblatex /\ bcf_exists

\* if has_biblatex { if output...success()...unwrap_or(false) && bcf_path.exists() {
EntersBibPhase(has_biblatex, first_ok, bcf_exists) ==
    has_biblatex /\ first_ok /\ bcf_exists

\* tx.send(CompilationMsg::Start) and the choice of the target
WStart(w) ==
    /\ worker[w].pc = "start"
    /\ Send(w, MsgStart(w),
            [ worker[w] EXCEPT !.pc = "write",
                               !.target_path = TargetPath(worker[w].root_file, worker[w].file_path) ])
    /\ UNCHANGED consumer_vars

\* "Save current file content to disk"
WWrite(w) ==
    /\ worker[w].pc = "write"
    /\ \E ok \in BOOLEAN :
         LET u == [ worker[w] EXCEPT !.pc = PcAfterWrite(ok), !.writes = @ + 1,
                                          !.write = IF ok THEN "ok" ELSE "failed",
                                          !.written_content =
                                              IF ok THEN Some(CleanContent(worker[w].content))
                                              ELSE None,
                                          !.written_path = SavePath(worker[w].file_path) ]
         IN  IF ok THEN Local(w, u) ELSE Send(w, MsgError(w, "Write error: "), u)
    /\ UNCHANGED consumer_vars

\* tx.send(Log("Compiling document..."))
WLogCompiling(w) ==
    /\ worker[w].pc = "log1"
    /\ Send(w, MsgLog(w, "Compiling document..."), [ worker[w] EXCEPT !.pc = "engine1" ])
    /\ UNCHANGED consumer_vars

\* output = run_tectonic()  (first pass)
WEngine1(w, env) ==
    /\ worker[w].pc = "engine1"
    /\ \E o \in env.outputs :
         Local(w, [ worker[w] EXCEPT !.pc = "bib", !.output = o, !.engine_runs = @ + 1,
                                     !.engine_arg = worker[w].target_path,
                                     !.first_output = o,
                                     !.first_success = IF StatusSuccess(o) THEN "yes" ELSE "no" ])
    /\ UNCHANGED consumer_vars

\* if has_biblatex { ... } up to the choice of run_biber
WBibPhase(w, env) ==
    /\ worker[w].pc = "bib"
    /\ \E bcf_exists \in BOOLEAN, files \in env.files :
         LET bcf == files[1]
             bib == files[2]
             v == [ worker[w] EXCEPT !.bcf_exists = IF bcf_exists THEN "yes" ELSE "no" ]
         IN
         IF EntersBibPhase(HasBiblatex(v.content), StatusSuccess(v.output), bcf_exists)
         THEN LET u == [ v EXCEPT !.current_bcf_hash = hash_file(bcf),
                                          !.current_bib_hash = Sha256Hex(bib),
                                          !.bcf_seen = bcf, !.bib_seen = bib ]
              IN  IF SkipBiber(u.current_bcf_hash, u.current_bib_hash,
                               ClosureLastHashes(w)[1], ClosureLastHashes(w)[2])
                  THEN Send(w, MsgLog(w, "Citations unchanged."),
                            [ u EXCEPT !.pc = "diag", !.biber = "skipped" ])
                  ELSE Send(w, MsgLog(w, "Citations changed. Processing bibliography with Biber..."),
                            [ u EXCEPT !.pc = "biber" ])
         ELSE Local(w, [ v EXCEPT !.pc = "diag" ])
    /\ UNCHANGED consumer_vars

\* biber_cmd.output() and the handling of its result
WBiber(w, env) ==
    /\ worker[w].pc = "biber"
    /\ \E result \in env.bibers :
         LET u == [ worker[w] EXCEPT !.pc = PcAfterBiber(result), !.biber = result ]
         IN  CASE result = "ok"           -> Local(w, u)
               [] result = "nonzero"      -> Send(w, MsgLog(w, "Biber warning/error: "), u)
               [] result = "spawn_failed" -> Send(w, MsgLog(w, "Failed to execute Biber."), u)
    /\ UNCHANGED consumer_vars

\* tx.send(Log("Re-compiling document to link citations..."))
WLogRecompiling(w) ==
    /\ worker[w].pc = "relog"
    /\ Send(w, MsgLog(w, "Re-compiling document to link citations..."),
            [ worker[w] EXCEPT !.pc = "engine2" ])
    /\ UNCHANGED consumer_vars

\* output = run_tectonic()  (second pass)
WEngine2(w, env) ==
    /\ worker[w].pc = "engine2"
    /\ \E o \in env.outputs :
         Local(w, [ worker[w] EXCEPT !.pc = "diag", !.output = o, !.engine_runs = @ + 1,
                                     !.engine_arg = worker[w].target_path ])
    /\ UNCHANGED consumer_vars

\* mutant: the output of the first pass is parsed
ParsedFirstOutput(w) == worker[w].first_output

\* the value of the variable output after the bibliography phase: the second pass has
\* overwritten the first
ParsedOutput(w) == worker[w].output

\* if let Ok(out) = &output { ... parse ... send Diagnostics }
WDiagnostics(w) ==
    /\ worker[w].pc = "diag"
    /\ LET o == ParsedOutput(w)
           d == ParseDiagnostics(o.stdout \o o.stderr, worker[w].target_path)
           u == [ worker[w] EXCEPT !.pc = "term" ]
       IN  IF o.spawned /\ d # <<>> THEN Send(w, MsgDiagnostics(w, d), u) ELSE Local(w, u)
    /\ UNCHANGED consumer_vars

\* match output { ... }: the terminal message
WTerminal(w) ==
    /\ worker[w].pc = "term"
    /\ \E pdf_exists \in BOOLEAN :
         LET o == worker[w].output
         IN  Send(w, TerminalMsg(w, o, pdf_exists, worker[w].target_path,
                                 worker[w].current_bcf_hash, worker[w].current_bib_hash),
                  [ worker[w] EXCEPT !.pc = "done",
                                     !.pdf_exists = IF ~StatusSuccess(o) THEN "unchecked"
                                                    ELSE IF pdf_exists THEN "yes" ELSE "no" ])
    /\ UNCHANGED consumer_vars

(* ---------------------------------------------------------------------- *)
(* The consumer: TypesafeApp                                               *)
(* (log text, preview and other presentation fields are not modelled)      *)
(* ---------------------------------------------------------------------- *)

\* fn compile: snapshot the fields, spawn the thread, set the flag
\* (the autosave before the snapshot writes the file and clears is_dirty only)
Compile(content, path) ==
    /\ spawned < MaxCompiles
    /\ spawned' = spawned + 1
    /\ worker' = [ worker EXCEPT ![spawned + 1] = NewWorker(content, path) ]
    /\ is_compiling' = TRUE
    /\ UNCHANGED << compile_rx, last_bcf_hash, last_bib_hash, last_success,
                    handled, polling, backlog, search_vars >>

\* update: "Handle pending compilation"
PendingAutocompile ==
    /\ pending_autocompile
    /\ pending_autocompile' = FALSE
    /\ Compile(editor_content, file_path)
    /\ UNCHANGED << editor_content, file_path, root_file >>

\* update: Ctrl+B (the open file is a .tex file)
CtrlB ==
    /\ ~is_compiling
    /\ Compile(editor_content, file_path)
    /\ UNCHANGED consumer_flags

\* update: the "Build PDF" menu item
BuildMenu ==
    /\ Compile(editor_content, file_path)
    /\ UNCHANGED consumer_flags

\* update: the "Build" button of the editor panel
BuildButton ==
    /\ Compile(editor_content, file_path)
    /\ UNCHANGED consumer_flags

\* update: the command palette's "Compile Project"
PaletteCompile ==
    /\ ~is_compiling
    /\ Compile(editor_content, file_path)
    /\ UNCHANGED consumer_flags

\* fn save_file with std::fs::write succeeding, auto_compile set and trigger_compile
SaveFile ==
    /\ Compile(editor_content, file_path)
    /\ UNCHANGED consumer_flags

\* self.file_path = path; self.load_file(ctx, &path) on a .tex file
LoadFile ==
    /\ \E path \in FilePaths, read \in { Some(d) : d \in Docs } \cup { None } :
         /\ file_path' = path
         /\ IF read # None
            THEN editor_content' = read[1] /\ Compile(read[1], path)
            ELSE /\ editor_content' = << "Error loading file: " >>
                 /\ UNCHANGED << compile_rx, worker, spawned, is_compiling,
                                 last_bcf_hash, last_bib_hash, last_success,
                                 handled, polling, backlog, search_vars >>
    /\ UNCHANGED << root_file, pending_autocompile >>

\* load_file of the open .tex file after a thread has written it and no other has:
\* read_to_string gives the text of that write, and the text is compiled
Reload ==
    /\ \E w \in Workers :
         /\ worker[w].write = "ok"
         /\ worker[w].written_path = file_path
         /\ \A v \in Workers \ { w } : worker[v].write = "none"
         /\ editor_content' = worker[w].written_content[1]
         /\ Compile(worker[w].written_content[1], file_path)
    /\ UNCHANGED << file_path, root_file, pending_autocompile >>

\* the user types in the editor
Edit ==
    /\ \E doc \in Docs : doc # editor_content /\ editor_content' = doc
    /\ UNCHANGED << file_path, root_file, is_compiling, pending_autocompile, last_bcf_hash,
                    last_bib_hash, compile_rx, worker, spawned, last_success,
                    handled, polling, backlog, search_vars >>

\* the file tree's "Set as Root File"
SetRootFile ==
    /\ root_file # Some(RootPath)
    /\ root_file' = Some(RootPath)
    /\ UNCHANGED << editor_content, file_path, is_compiling, pending_autocompile, last_bcf_hash,
                    last_bib_hash, compile_rx, worker, spawned, last_success,
                    handled, polling, backlog, search_vars >>

\* mutant: the fingerprints of a Success are dropped
HashesAfterKeepsOld(msg, old_bcf, old_bib) == << old_bcf, old_bib >>

\* mutant: an Error resets the fingerprints
HashesAfterAnyTerminal(msg, old_bcf, old_bib) ==
    IF Terminal(msg.type) THEN << msg.bcf, msg.bib >> ELSE << old_bcf, old_bib >>

\* the fingerprints the consumer keeps after handling msg
HashesAfter(msg, old_bcf, old_bib) ==
    IF msg.type = "Success" THEN << msg.bcf, msg.bib >> ELSE << old_bcf, old_bib >>

\* mutant: only a Success clears the flag
CompilingAfterSuccessOnly(msg, old) ==
    CASE msg.type = "Start"      -> TRUE
      [] msg.type = "Success"    -> FALSE
      [] OTHER                   -> old

\* is_compiling after handling msg
CompilingAfter(msg, old) ==
    CASE msg.type = "Start"      -> TRUE
      [] Terminal(msg.type)      -> FALSE
      [] OTHER                   -> old

\* mutant: the newest message is taken first
TryRecvNewest(chan) == Len(chan)

\* Receiver::try_recv on a non-empty channel: the position of the message it takes
TryRecv(chan) == 1

\* the channel without its i-th message
Without(chan, i) == SubSeq(chan, 1, i - 1) \o SubSeq(chan, i + 1, Len(chan))

\* the identity of a message: its sender and its position among the sender's messages
Id(msg) == << msg.w, msg.seq >>

\* update: one iteration of  while let Ok(msg) = self.compile_rx.try_recv()
\* (on Success load_pdf_preview replaces the preview; the compilation specifications keep
\* the preview of TypesafeApp::new, and every preview a load can leave behind is an
\* initial state of the specification of the searches)
Recv ==
    /\ compile_rx # <<>>
    /\ LET msg == compile_rx[TryRecv(compile_rx)]
       IN  /\ compile_rx' = Without(compile_rx, TryRecv(compile_rx))
           /\ handled' = [ handled EXCEPT ![msg.w] = Append(@, msg.seq) ]
           /\ is_compiling' = CompilingAfter(msg, is_compiling)
           /\ last_bcf_hash' = HashesAfter(msg, last_bcf_hash, last_bib_hash)[1]
           /\ last_bib_hash' = HashesAfter(msg, last_bcf_hash, last_bib_hash)[2]
           /\ last_success' = IF msg.type = "Success" THEN msg.w ELSE last_success
    /\ UNCHANGED << editor_content, file_path, root_file, pending_autocompile, worker,
                    spawned, polling, backlog, search_vars >>

\* mutant: the loop may be left while messages are waiting
LoopEndsEarly(chan) == TRUE

\* while let Ok(msg) = try_recv(): the loop is left when try_recv finds the channel empty
LoopEnds(chan) == chan = <<>>

\* update reaches "Poll compilation messages"
PollBegin ==
    /\ ~polling
    /\ polling' = TRUE
    /\ backlog' = { Id(compile_rx[i]) : i \in 1..Len(compile_rx) }
    /\ UNCHANGED << editor_content, file_path, root_file, is_compiling, pending_autocompile,
                    last_bcf_hash, last_bib_hash, compile_rx, worker, spawned, last_success,
                    handled, search_vars >>

\* one iteration of the loop of this tick
PollRecv == polling /\ Recv

\* try_recv returns Err and update goes on to the shortcuts and the panels
PollEnd ==
    /\ polling
    /\ LoopEnds(compile_rx)
    /\ polling' = FALSE
    /\ backlog' = {}
    /\ UNCHANGED << editor_content, file_path, root_file, is_compiling, pending_autocompile,
                    last_bcf_hash, last_bib_hash, compile_rx, worker, spawned, last_success,
                    handled, search_vars >>

(* ---------------------------------------------------------------------- *)
(* SyncTeX: forward search (editor line -> page position)                  *)
(* ---------------------------------------------------------------------- *)

\* scaled points in a point: v_sp / 65536.0
ScaledPerPoint == 65536

\* a line of the decompressed .synctex file, by the fields the two scans read
IndexLine(kind) ==
    [ kind |-> kind, tag |-> None, name |-> <<>>, page |-> None,
      type |-> "", file |-> 0, line |-> 0, v |-> None ]

\* "Input:<tag>:<path>"; tag is parts[1].parse::<usize>().ok(), name the parts of the path
InputLine(tag, name) == [ IndexLine("Input") EXCEPT !.tag = tag, !.name = name ]

\* "{<page>"; page is line[1..].parse::<usize>() (None: Err)
PageLine(page) == [ IndexLine("{") EXCEPT !.page = page ]

\* "<type><file>,<line>:<h>,<v>..."; v is coords[1].parse::<f32>() (None: Err or no such field)
RecordLine(type, file, line, v) ==
    [ IndexLine("record") EXCEPT !.type = type, !.file = file, !.line = line, !.v = v ]

\* Path::file_name of the open file
FileName(path) ==
    CASE path = "doc.tex" -> "doc.tex"
      [] path = ""        -> ""

\* parts[2].contains(&*file_name)
NameContains(name, file_name) == file_name = "" \/ Contains(name, file_name)

\* "1. Find File ID": the tag of the first Input line whose path contains the file name
RECURSIVE ResolveFileId(_, _)
ResolveFileId(index, file_name) ==
    IF index = <<>> THEN None
    ELSE IF Head(index).kind = "Input" /\ NameContains(Head(index).name, file_name)
         THEN Head(index).tag
         ELSE ResolveFileId(Tail(index), file_name)

\* mutant: a '{' line without a number puts the scan before the first page
NextPageResets(l, current) == IF l.page # None THEN l.page[1] ELSE 0

\* if let Ok(p) = line[1..].parse::<usize>() { current_page = p; }  on a '{' line
NextPage(l, current) == IF l.page # None THEN l.page[1] ELSE current

\* mutant: the scan goes on after a match and keeps the last one
RECURSIVE ForwardScanLast(_, _, _, _)
ForwardScanLast(index, current, fid, line_num) ==
    IF index = <<>> THEN None
    ELSE LET l == Head(index)
             next == IF l.kind = "{" /\ l.page # None THEN l.page[1] ELSE current
             rest == ForwardScanLast(Tail(index), next, fid, line_num)
         IN  IF rest # None THEN rest
             ELSE IF l.kind = "record" /\ l.file = fid /\ l.line = line_num /\ l.v # None
                  THEN Some(<< current, l.v[1] >>)
                  ELSE None

\* the second loop: the page marker and the v of the first line that starts with
\* "<fid>,<line_num>:" after its first character and whose v parses
RECURSIVE ForwardScan(_, _, _, _)
ForwardScan(index, current, fid, line_num) ==
    IF index = <<>> THEN None
    ELSE LET l == Head(index)
         IN  IF l.kind = "{"
             THEN ForwardScan(Tail(index), NextPage(l, current), fid, line_num)
             ELSE IF l.kind = "record" /\ l.file = fid /\ l.line = line_num /\ l.v # None
                  THEN Some(<< current, l.v[1] >>)
                  ELSE ForwardScan(Tail(index), current, fid, line_num)

\* fractions are kept as pairs <<numerator, denominator>> in lowest terms
RECURSIVE Gcd(_, _)
Gcd(a, b) == IF b = 0 THEN a ELSE Gcd(b, a % b)

Abs(x) == IF x < 0 THEN -x ELSE x

Frac(n, d) ==
    LET g == Gcd(Abs(n), d)
    IN  << n \div g, d \div g >>

Half == << 1, 2 >>

\* let mut rel_y = 0.5; if let Some((_, h)) = page_sizes.get(&page_idx) { if *h > 0.0 { rel_y = v_pt / *h } }
RelY(v_sp, page_idx, sizes) ==
    IF page_idx \in DOMAIN sizes /\ sizes[page_idx] > 0
    THEN Frac(v_sp, ScaledPerPoint * sizes[page_idx])
    ELSE Half

\* usize::saturating_sub(1)
SaturatingSub1(n) == IF n = 0 THEN 0 ELSE n - 1

Min(a, b) == IF a < b THEN a ELSE b

Max(a, b) == IF a < b THEN b ELSE a

\* str::lines().count() of a text given as tokens, "NL" being the line break
LineCount(content) ==
    Cardinality({ i \in 1..Len(content) : content[i] = "NL" })
        + (IF content # <<>> /\ content[Len(content)] # "NL" THEN 1 ELSE 0)

\* the number of '\n' characters
NewlineCount(content) == Cardinality({ i \in 1..Len(content) : content[i] = "NL" })

\* mutant: the estimate is rounded and not limited to the pages
FallbackPageRounded(line_num, total_lines, pages) ==
    (2 * pages * line_num + total_lines) \div (2 * total_lines)

\* "Naive fallback": ((page_count as f32 * rel) as usize).min(page_count.saturating_sub(1))
FallbackPage(line_num, total_lines, pages) ==
    Min((pages * line_num) \div total_lines, SaturatingSub1(pages))

\* mutant: a record is used only when the size of its page is known
ForwardHitWithPageSizeOnly(line_num) ==
    IF synctex = None THEN None
    ELSE LET fid == ResolveFileId(synctex[1], FileName(file_path))
             hit == ForwardScan(synctex[1], 1, fid[1], line_num)
         IN  IF fid = None \/ hit = None THEN None
             ELSE IF SaturatingSub1(hit[1][1]) \in DOMAIN page_sizes THEN hit ELSE None

\* what the scan of the index finds for line_num (None: nothing, or no index, or no file id)
ForwardHit(line_num) ==
    IF synctex = None THEN None
    ELSE LET fid == ResolveFileId(synctex[1], FileName(file_path))
         IN  IF fid = None THEN None
             ELSE ForwardScan(synctex[1], 1, fid[1], line_num)

\* a call of one of the searches: its arguments, found / jumped, and the best_line the
\* editor was moved to
Query(kind, line_num, page_idx, rel_y, found, best_line) ==
    [ kind |-> kind, line_num |-> line_num, page_idx |-> page_idx, rel_y |-> rel_y,
      found |-> found, best_line |-> best_line ]

\* fn sync_forward_search, called by Ctrl+J and "Go to PDF" with the line of the cursor
SyncForwardSearch ==
    /\ \E line_num \in 1..(NewlineCount(editor_content) + 1) :
         LET hit == ForwardHit(line_num)
             page_idx == SaturatingSub1(hit[1][1])
             total_lines == Max(LineCount(editor_content), 1)
             target_page == FallbackPage(line_num, total_lines, page_count)
         IN  /\ last_query' = Some(Query("forward", line_num, 0, Half, hit # None, 0))
             /\ current_page' = IF hit # None THEN page_idx ELSE target_page
             /\ pending_scroll_target' =
                    IF hit # None
                    THEN Some(<< page_idx, RelY(hit[1][2], page_idx, page_sizes) >>)
                    ELSE Some(<< target_page, Half >>)
    /\ UNCHANGED << editor_content, file_path, root_file, is_compiling, pending_autocompile,
                    last_bcf_hash, last_bib_hash, compile_rx, worker, spawned, last_success,
                    handled, polling, backlog, synctex, page_sizes, page_count, cursor >>

\* where the pointer can be on a page, as a fraction of its height
Clicks == { << 1, 80 >>, << 1, 20 >>, << 7, 80 >> }

(* ---------------------------------------------------------------------- *)
(* SyncTeX: inverse search (double click on a page -> editor line)         *)
(* ---------------------------------------------------------------------- *)

\* dist < 65536.0 * 50.0
TolerancePoints == 50

\* "xkgvh".contains(first)
InverseTypes == { "x", "k", "g", "v", "h" }

\* let target_y_sp = rel_y * page_h * 65536.0  (the clicks of the model divide evenly)
TargetYSp(rel_y, page_h) == rel_y[1] * ((page_h * ScaledPerPoint) \div rel_y[2])

\* the state of the scan after a line: << best_dist, best_line, jump >>, best_dist None
\* for f32::MAX, jump the best_line of the last "if best_line > 0" that was taken
ScanStart == << None, 0, None >>

\* "if best_line > 0" at the end of each turn of the loop
AfterLine(dist, line, jump) == << dist, line, IF line > 0 THEN Some(line) ELSE jump >>

\* "Manual Inverse Search": the loop over the lines of the index
RECURSIVE InverseScan(_, _, _, _, _)
InverseScan(index, current, target_page, target_y_sp, best) ==
    IF index = <<>> THEN best
    ELSE LET l == Head(index)
             dist == Abs(l.v[1] - target_y_sp)
         IN  IF l.kind = "{"
             THEN InverseScan(Tail(index), NextPage(l, current), target_page, target_y_sp,
                              AfterLine(best[1], best[2], best[3]))
             ELSE IF /\ current = target_page
                     /\ l.kind = "record" /\ l.type \in InverseTypes /\ l.v # None
                     /\ (best[1] = None \/ dist < best[1][1])
                     /\ dist < ScaledPerPoint * TolerancePoints
                  THEN InverseScan(Tail(index), current, target_page, target_y_sp,
                                   AfterLine(Some(dist), l.line, best[3]))
                  ELSE InverseScan(Tail(index), current, target_page, target_y_sp,
                                   AfterLine(best[1], best[2], best[3]))

\* mutant: the page index is taken for the number of the page marker
BestLineZeroBased(page_idx, rel_y) ==
    IF page_idx \notin DOMAIN page_sizes \/ synctex = None THEN None
    ELSE InverseScan(synctex[1], 0, page_idx,
                     TargetYSp(rel_y, page_sizes[page_idx]), ScanStart)[3]

\* the best_line the editor is moved to by a double click on page page_idx at rel_y
\* (None: jumped stays false; without the size of the page or the index nothing is scanned)
BestLine(page_idx, rel_y) ==
    IF page_idx \notin DOMAIN page_sizes \/ synctex = None THEN None
    ELSE InverseScan(synctex[1], 0, page_idx + 1,
                     TargetYSp(rel_y, page_sizes[page_idx]), ScanStart)[3]

\* the line whose first character is char_idx, for the record's line best_line:
\* the '\n' before it is looked for, unwrap_or(0)
JumpLine(best_line, content) ==
    IF best_line - 1 = 0 THEN 0
    ELSE IF NewlineCount(content) >= best_line - 1 THEN best_line - 1 ELSE 0

\* f32::round of n / d  (n >= 0, d > 0)
Round(n, d) == (2 * n + d) \div (2 * d)

\* "Fallback to naive estimation": rel_y is inside the page, so the clamp keeps it
FallbackLine(page_idx, rel_y, total_lines, pages) ==
    Min(Round((page_idx * rel_y[2] + rel_y[1]) * total_lines, rel_y[2] * pages),
        SaturatingSub1(total_lines))

\* update: img_resp.double_clicked() on the page page_idx, the pointer at rel_y of its height
\* (the editor has been shown, so TextEdit::load_state returns its state)
InverseSearch ==
    /\ page_count > 0
    /\ \E page_idx \in 0..(page_count - 1), rel_y \in Clicks :
         LET jump == BestLine(page_idx, rel_y)
             total_lines == Max(LineCount(editor_content), 1)
         IN  /\ last_query' = Some(Query("inverse", 0, page_idx, rel_y, jump # None,
                                         IF jump # None THEN jump[1] ELSE 0))
             /\ cursor' = IF jump # None
                          THEN Some(JumpLine(jump[1], editor_content))
                          ELSE Some(FallbackLine(page_idx, rel_y, total_lines, page_count))
    /\ UNCHANGED << editor_content, file_path, root_file, is_compiling, pending_autocompile,
                    last_bcf_hash, last_bib_hash, compile_rx, worker, spawned, last_success,
                    handled, polling, backlog, synctex, page_sizes, page_count, current_page,
                    pending_scroll_target >>

(* ---------------------------------------------------------------------- *)
(* Specification                                                           *)
(* ---------------------------------------------------------------------- *)

\* TypesafeApp::new: no PDF, no page, nothing to scroll to
NoPreview ==
    /\ synctex = None
    /\ page_sizes = << >>
    /\ page_count = 0
    /\ current_page = 0
    /\ pending_scroll_target = None
    /\ cursor = None
    /\ last_query = None

Init ==
    /\ editor_content \in Docs
    /\ file_path = "doc.tex"
    /\ root_file = None
    /\ is_compiling = FALSE
    /\ pending_autocompile \in BOOLEAN
    /\ last_bcf_hash = EmptyHash
    /\ last_bib_hash = EmptyHash
    /\ compile_rx = <<>>
    /\ worker = [ w \in Workers |-> NoWorker ]
    /\ spawned = 0
    /\ last_success = 0
    /\ handled = [ w \in Workers |-> <<>> ]
    /\ polling = FALSE
    /\ backlog = {}
    /\ NoPreview

\* what the file system and the child processes may answer: every outcome ...
FullEnv ==
    [ outputs |-> Outputs,
      files   |-> (BcfContents \cup { Unreadable }) \X BibContents,
      bibers  |-> BiberResults ]

\* ... and, for the runs with several threads, a success and a failure of each child
\* process and directory contents that differ in the .bcf file or in the .bib files
SystemEnv ==
    [ outputs |-> { Out(0, <<ErrLine>>, <<>>), Out(1, <<>>, <<WarnLine>>) },
      files   |-> { << "bcfA", "bibA" >>, << "bcfB", "bibA" >>, << "bcfA", "" >>,
                    << Unreadable, "bibA" >> },
      bibers  |-> { "ok", "spawn_failed" } ]

WorkerStep(w, env) ==
    \/ WStart(w)
    \/ WWrite(w)
    \/ WLogCompiling(w)
    \/ WEngine1(w, env)
    \/ WBibPhase(w, env)
    \/ WBiber(w, env)
    \/ WLogRecompiling(w)
    \/ WEngine2(w, env)
    \/ WDiagnostics(w)
    \/ WTerminal(w)

Next ==
    \/ PendingAutocompile
    \/ CtrlB
    \/ BuildMenu
    \/ BuildButton
    \/ PaletteCompile
    \/ SaveFile
    \/ LoadFile
    \/ Edit
    \/ Recv
    \/ \E w \in Workers : Len(compile_rx) < MaxQueue /\ WorkerStep(w, SystemEnv)

Spec == Init /\ [][Next]_vars

\* for the runs that follow update() tick by tick: one success and one failure of the
\* engine, a directory that does not change, a tool that runs
TickEnv ==
    [ outputs |-> { Out(0, <<>>, <<>>), Out(1, <<>>, <<>>) },
      files   |-> { << "bcfA", "bibA" >> },
      bibers  |-> { "ok" } ]

\* update() with its poll loop: the entry points of compile() run outside the loop, the
\* threads run at any time (the text, the open file and the root file stay the same)
NextTick ==
    \/ PollBegin
    \/ PollRecv
    \/ PollEnd
    \/ ~polling /\ PendingAutocompile
    \/ ~polling /\ CtrlB
    \/ ~polling /\ BuildMenu
    \/ ~polling /\ BuildButton
    \/ ~polling /\ PaletteCompile
    \/ ~polling /\ SaveFile
    \/ \E w \in Workers : Len(compile_rx) < MaxQueue /\ WorkerStep(w, TickEnv)

SpecTick == Init /\ [][NextTick]_vars

\* every child process returns, so a thread that can take a step takes it, and update()
\* is called again and again, so the poll loop is entered, takes the messages that wait
\* and is left
TickFairness ==
    /\ \A w \in Workers : WF_vars(Len(compile_rx) < MaxQueue /\ WorkerStep(w, TickEnv))
    /\ WF_vars(PollBegin)
    /\ WF_vars(PollRecv)
    /\ WF_vars(PollEnd)

SpecTickFair == SpecTick /\ TickFairness

\* the consumer changes what compile() snapshots (the text, the root file and, by the
\* messages it handles, the fingerprints) while threads run
NextSnapshot ==
    \/ Edit
    \/ SetRootFile
    \/ BuildMenu
    \/ BuildButton
    \/ Recv
    \/ \E w \in Workers : Len(compile_rx) < MaxQueue /\ WorkerStep(w, TickEnv)

SpecSnapshot == Init /\ [][NextSnapshot]_vars

\* lines the engine can print: the documented error line, a warning, an error line
\* whose message holds a second ":<digits>: ", error lines whose number is written with
\* a non-ASCII digit, an error in the middle of a line, a line without the blank
DiagLines ==
    { ErrLine,
      WarnLine,
      << "error", ":", " ", "doc.tex", ":", "4", "2", ":", " ", "see", ":", "7", ":", " ", "bar" >>,
      << "error", ":", " ", "doc.tex", ":", "U+0663", ":", " ", "Missing $ inserted" >>,
      << "error", ":", " ", "doc.tex", ":", "4", "2", ":", " ", "see", ":", "U+0663", ":", " ", "bar" >>,
      << "note", " ", "error", ":", " ", "ch1.tex", ":", "7", ":", " ", "Overfull" >>,
      << "error", ":", " ", "doc.tex", ":", "4", ":", "Missing" >>,
      << "error", ":", " ", "doc.tex", ":", "1", "0", ":", " " >> }

\* what the engine can have printed on one stream: at most two lines
DiagStreams ==
    { <<>> } \cup { << a >> : a \in DiagLines } \cup { << a, b >> : a \in DiagLines, b \in DiagLines }

\* a thread whose engine has just returned any of these outputs
InitParse ==
    /\ editor_content = << "hello" >>
    /\ file_path = "doc.tex"
    /\ root_file = None
    /\ is_compiling = TRUE
    /\ pending_autocompile = FALSE
    /\ last_bcf_hash = EmptyHash
    /\ last_bib_hash = EmptyHash
    /\ compile_rx = <<>>
    /\ spawned = 1
    /\ last_success = 0
    /\ handled = [ w \in Workers |-> IF w = 1 THEN << 1, 2 >> ELSE <<>> ]
    /\ polling = FALSE
    /\ backlog = {}
    /\ NoPreview
    /\ \E code \in { 0, 1 }, stdout \in DiagStreams, stderr \in { <<>>, << WarnLine >>, << ErrLine >> } :
         worker = [ w \in Workers |->
                      IF w = 1
                      THEN [ NewWorker(editor_content, file_path) EXCEPT
                               !.pc = "diag", !.target_path = "doc.tex",
                               !.sent = << "Start", "Log" >>,
                               !.write = "ok", !.writes = 1,
                               !.written_content = Some(<< "hello" >>),
                               !.written_path = "doc.tex",
                               !.engine_runs = 1, !.engine_arg = "doc.tex",
                               !.output = Out(code, stdout, stderr),
                               !.first_output = Out(code, stdout, stderr),
                               !.first_success = IF code = 0 THEN "yes" ELSE "no",
                               !.bcf_exists = "no" ]
                      ELSE NoWorker ]

NextParse == \E w \in Workers : WDiagnostics(w) \/ WTerminal(w)

SpecParse == InitParse /\ [][NextParse]_vars

\* the longest index body of the initial states
MaxIndexLines == 3

\* vertical positions of the records: 10, 40, 70 and 900 points
Points(n) == n * ScaledPerPoint

\* the lines an index is made of: page markers, a '{' line that is not followed by a
\* number, records of the open file (tag 1) on
\* lines 1 and 2, a record of another file, a box record, a record without a line
\* number, a record below the page, a record whose v does not parse
IndexItems ==
    { PageLine(Some(1)), PageLine(Some(2)), PageLine(None),
      RecordLine("x", 1, 1, Some(Points(10))),
      RecordLine("x", 1, 2, Some(Points(40))),
      RecordLine("g", 1, 1, Some(Points(70))),
      RecordLine("x", 2, 1, Some(Points(10))),
      RecordLine("(", 1, 1, Some(Points(40))),
      RecordLine("x", 1, 0, Some(Points(10))),
      RecordLine("x", 1, 2, Some(Points(900))),
      RecordLine("x", 1, 1, None) }

RECURSIVE SeqsUpTo(_, _)
SeqsUpTo(S, n) ==
    IF n = 0 THEN { <<>> }
    ELSE LET shorter == SeqsUpTo(S, n - 1)
         IN  shorter \cup { Append(q, x) : q \in shorter, x \in S }

\* the Input lines at the head of the index: the open file is registered, or no file is
IndexHeads == { << InputLine(Some(1), << "./", "doc.tex" >>) >>, << >> }

\* the texts in the editor: two lines, and three lines that all end with a line break
SearchDocs == { << "a", "NL", "b" >>, << "a", "NL", "b", "NL", "c", "NL" >> }

\* the loaded PDF: no page; one page (fewer than the index has, when the index is older
\* than the PDF); two pages, both rendered, 800 points high; three pages of which the
\* first is rendered
Previews ==
    { [ pages |-> 0, sizes |-> [ i \in {} |-> 0 ] ],
      [ pages |-> 1, sizes |-> [ i \in { 0 } |-> 800 ] ],
      [ pages |-> 2, sizes |-> [ i \in { 0, 1 } |-> 800 ] ],
      [ pages |-> 3, sizes |-> [ i \in { 0 } |-> 800 ] ] }

\* a compiled document in the preview, the editor on doc.tex, no thread running
InitSearch ==
    /\ editor_content \in SearchDocs
    /\ file_path = "doc.tex"
    /\ root_file = None
    /\ is_compiling = FALSE
    /\ pending_autocompile = FALSE
    /\ last_bcf_hash = EmptyHash
    /\ last_bib_hash = EmptyHash
    /\ compile_rx = <<>>
    /\ worker = [ w \in Workers |-> NoWorker ]
    /\ spawned = 0
    /\ last_success = 0
    /\ handled = [ w \in Workers |-> <<>> ]
    /\ polling = FALSE
    /\ backlog = {}
    /\ synctex \in { None } \cup
                   { Some(head \o body) : head \in IndexHeads,
                                          body \in SeqsUpTo(IndexItems, MaxIndexLines) }
    /\ \E p \in Previews : page_count = p.pages /\ page_sizes = p.sizes
    /\ current_page = 0
    /\ pending_scroll_target = None
    /\ cursor = None
    /\ last_query = None

NextSearch == SyncForwardSearch \/ InverseSearch

SpecSearch == InitSearch /\ [][NextSearch]_vars

\* the longest text of the initial states of the write path
MaxBomLen == 3

\* texts with byte-order-marks at the head, in the middle, at the end, or nowhere
BomDocs == SeqsUpTo({ "BOM", "hello" }, MaxBomLen)

\* any such text in the editor, nothing compiled yet
InitWrite ==
    /\ editor_content \in BomDocs
    /\ file_path = "doc.tex"
    /\ root_file = None
    /\ is_compiling = FALSE
    /\ pending_autocompile = FALSE
    /\ last_bcf_hash = EmptyHash
    /\ last_bib_hash = EmptyHash
    /\ compile_rx = <<>>
    /\ worker = [ w \in Workers |-> NoWorker ]
    /\ spawned = 0
    /\ last_success = 0
    /\ handled = [ w \in Workers |-> <<>> ]
    /\ polling = FALSE
    /\ backlog = {}
    /\ NoPreview

\* compiles, the threads up to their write, and the file read back
NextWrite ==
    \/ BuildMenu
    \/ Reload
    \/ \E w \in Workers : WStart(w) \/ WWrite(w)

SpecWrite == InitWrite /\ [][NextWrite]_vars

\* the fingerprint pairs the consumer can hold when compile() takes its snapshot
StoredPairs ==
    { << EmptyHash, EmptyHash >> } \cup
    { << hash_file(c), Sha256Hex(b) >> : c \in BcfContents \cup { Unreadable }, b \in BibContents }

\* one compile() call with any snapshot, the thread not yet started
InitWorker ==
    /\ editor_content \in Docs
    /\ file_path \in FilePaths \cup { "" }
    /\ root_file \in { None, Some(RootPath) }
    /\ is_compiling = TRUE
    /\ pending_autocompile = FALSE
    /\ \E pair \in StoredPairs : last_bcf_hash = pair[1] /\ last_bib_hash = pair[2]
    /\ compile_rx = <<>>
    /\ spawned = 1
    /\ last_success = 0
    /\ handled = [ w \in Workers |-> <<>> ]
    /\ polling = FALSE
    /\ backlog = {}
    /\ NoPreview
    /\ worker = [ w \in Workers |->
                    IF w = 1 THEN NewWorker(editor_content, file_path) ELSE NoWorker ]

NextWorker == \E w \in Workers : WorkerStep(w, FullEnv)

SpecWorker == InitWorker /\ [][NextWorker]_vars

(* ---------------------------------------------------------------------- *)
(* Properties of one compile worker (SpecWorker)                           *)
(* ---------------------------------------------------------------------- *)

Started == { w \in Workers : worker[w].pc # "unborn" }

Done(w) == worker[w].pc = "done"

LastSent(w) == worker[w].sent[Len(worker[w].sent)]

Count(seq, types) == Cardinality({ i \in 1..Len(seq) : seq[i] \in types })

\* the messages of worker w that are in the channel, in channel order
RECURSIVE MessagesOf(_, _)
MessagesOf(w, chan) ==
    IF chan = <<>> THEN <<>>
    ELSE IF Head(chan).w = w THEN << Head(chan) >> \o MessagesOf(w, Tail(chan))
    ELSE MessagesOf(w, Tail(chan))

\* the engine ran at least once and its last run did not exit with code zero
EngineFailed(w) == worker[w].engine_runs > 0 /\ ~StatusSuccess(worker[w].output)

\* C1: the messages a worker has sent start with its only Start, hold at most one
\* Diagnostics and no Success or Error while the worker runs, and end with its only
\* Success or Error once the worker has finished.
C1_TerminalMessageInvariant ==
    \A w \in Started :
        LET sent == worker[w].sent
        IN  /\ (worker[w].pc = "start") = (sent = <<>>)
            /\ sent # <<>> => sent[1] = "Start"
            /\ Count(sent, { "Start" }) <= 1
            /\ Count(sent, { "Diagnostics" }) <= 1
            /\ Count(sent, { "Success", "Error" }) = IF Done(w) THEN 1 ELSE 0
            /\ Done(w) => Terminal(LastSent(w))

\* a worker that ran the bibliography phase, sent Diagnostics and ended with Success
C1_Witness ==
    \E w \in Started :
        /\ Done(w) /\ LastSent(w) = "Success" /\ worker[w].engine_runs = 2
        /\ Count(worker[w].sent, { "Diagnostics" }) = 1

\* C4: once the bibliography phase is entered, the tool is skipped exactly when the
\* current fingerprint pair equals the previous pair and both previous fingerprints
\* are non-empty; otherwise the tool is run.
C4_SkipIffEqualAndNonEmpty ==
    \A w \in Started :
        worker[w].bcf_seen # "none" =>
            LET equal    == /\ worker[w].current_bcf_hash = worker[w].last_bcf_hash
                            /\ worker[w].current_bib_hash = worker[w].last_bib_hash
                nonempty == /\ worker[w].last_bcf_hash # EmptyHash
                            /\ worker[w].last_bib_hash # EmptyHash
            IN  /\ (worker[w].biber = "skipped") = (equal /\ nonempty)
                /\ ~(equal /\ nonempty) =>
                      worker[w].pc = "biber" \/ worker[w].biber \in BiberResults

\* the tool is skipped in one run, and run on a first run without prior fingerprints
C4_Witness ==
    \E w \in Started :
        /\ worker[w].biber = "skipped"
        /\ worker[w].current_bcf_hash # EmptyHash

\* C6: after a failed write the worker has sent Start and one Error and nothing else,
\* has written once, and has run neither the engine nor the bibliography tool.
C6_WriteFailureIsTerminal ==
    \A w \in Started :
        worker[w].write = "failed" =>
            /\ Done(w)
            /\ worker[w].sent = << "Start", "Error" >>
            /\ worker[w].writes = 1
            /\ worker[w].engine_runs = 0
            /\ worker[w].biber = "none"

C6_Witness == \E w \in Started : worker[w].write = "failed" /\ Done(w)

\* C7: a finished worker's last message is Success exactly when its last engine run
\* exited with code zero and <stem>.pdf exists; with code zero and no artifact it is Error.
C7_SuccessIffZeroExitAndArtifact ==
    \A w \in Started :
        Done(w) /\ worker[w].write = "ok" =>
            LET last == MessagesOf(w, compile_rx)[Len(worker[w].sent)]
            IN  /\ (last.type = "Success") =
                      (StatusSuccess(worker[w].output) /\ worker[w].pdf_exists = "yes")
                /\ last.type = "Success" => last.pdf = PdfPath(worker[w].target_path)
                /\ StatusSuccess(worker[w].output) /\ worker[w].pdf_exists = "no" =>
                      last.type = "Error"

\* the engine exits with zero and the artifact is missing
C7_Witness ==
    \E w \in Started :
        Done(w) /\ StatusSuccess(worker[w].output) /\ worker[w].pdf_exists = "no"

\* C8 as claimed: after a terminal engine failure (non-zero exit or failed spawn) the
\* last message is an Error that holds the exit code and both captured streams.
C8_Claimed ==
    \A w \in Started :
        Done(w) /\ EngineFailed(w) =>
            LET last == MessagesOf(w, compile_rx)[Len(worker[w].sent)]
            IN  /\ last.type = "Error"
                /\ last.code # None
                /\ last.stdout = Some(worker[w].output.stdout)
                /\ last.stderr = Some(worker[w].output.stderr)

\* C8 amended: after a terminal engine failure the last message is an Error, never a
\* Success; if the engine ran and exited non-zero the Error holds the exit code (-1 if
\* the process reports none) and both captured streams; if the engine could not be
\* spawned the Error holds neither an exit code nor a stream.
C8_ErrorOnEngineFailure ==
    \A w \in Started :
        Done(w) /\ EngineFailed(w) =>
            LET last == MessagesOf(w, compile_rx)[Len(worker[w].sent)]
                out  == worker[w].output
            IN  /\ last.type = "Error"
                /\ Count(worker[w].sent, { "Success" }) = 0
                /\ out.spawned =>
                      /\ last.code = Some(IF out.code = NoCode THEN -1 ELSE out.code)
                      /\ last.stdout = Some(out.stdout)
                      /\ last.stderr = Some(out.stderr)
                /\ ~out.spawned =>
                      last.code = None /\ last.stdout = None /\ last.stderr = None

\* the engine exits non-zero with output on both streams
C8_Witness ==
    \E w \in Started :
        /\ Done(w) /\ worker[w].output.spawned /\ worker[w].output.code = 1
        /\ worker[w].output.stdout # <<>> /\ worker[w].output.stderr # <<>>

\* C9: after a non-zero exit of the bibliography tool the worker sends a Log and no
\* Error for it, runs the engine a second time, and ends with Success exactly when
\* that second run exited with zero and the artifact exists.
C9_BiberFailureNotEscalated ==
    \A w \in Started :
        worker[w].biber = "nonzero" =>
            LET mine == MessagesOf(w, compile_rx)
            IN  /\ \E i \in 1..Len(mine) :
                      mine[i].type = "Log" /\ mine[i].text = "Biber warning/error: "
                /\ worker[w].pc \in { "relog", "engine2", "diag", "term", "done" }
                /\ worker[w].pc \in { "diag", "term", "done" } => worker[w].engine_runs = 2
                /\ ~Done(w) => Count(worker[w].sent, { "Success", "Error" }) = 0
                /\ Done(w) =>
                      (LastSent(w) = "Success") =
                          (StatusSuccess(worker[w].output) /\ worker[w].pdf_exists = "yes")

\* the tool exits non-zero and the compile still succeeds
C9_Witness ==
    \E w \in Started : worker[w].biber = "nonzero" /\ Done(w) /\ LastSent(w) = "Success"

\* the bibliography phase was entered and the fingerprints did not match
ToolNotSkipped(w) == worker[w].bcf_seen # "none" /\ worker[w].biber # "skipped"

\* C10 as claimed: a finished compile that got past the write step has run the engine
\* twice if the tool was not skipped and once otherwise.
C10_Claimed ==
    \A w \in Started :
        Done(w) /\ worker[w].write = "ok" =>
            worker[w].engine_runs = IF ToolNotSkipped(w) THEN 2 ELSE 1

\* C10 amended: a finished compile that got past the write step has run the engine
\* twice if the tool was not skipped and its process could be spawned (whatever its
\* exit status), and once otherwise, also when the tool could not be spawned.
C10_RerunOnlyAfterToolRan ==
    \A w \in Started :
        Done(w) /\ worker[w].write = "ok" =>
            worker[w].engine_runs =
                IF ToolNotSkipped(w) /\ worker[w].biber # "spawn_failed" THEN 2 ELSE 1

\* one compile where the tool could not be spawned
C10_Witness ==
    \E w \in Started : Done(w) /\ worker[w].biber = "spawn_failed" /\ worker[w].engine_runs = 1

\* the thread is past the test that guards the bibliography phase
PastBibGuard(w) == worker[w].bcf_exists # "unchecked"

\* the bibliography tool was invoked (it ran, or its spawn was attempted)
ToolInvoked(w) == worker[w].pc = "biber" \/ worker[w].biber \in BiberResults

\* the three conditions of the bibliography phase
BibConditions(w) ==
    /\ HasBiblatex(worker[w].content)
    /\ worker[w].first_success = "yes"
    /\ worker[w].bcf_exists = "yes"

\* C11: the bibliography tool is invoked only in a compile whose source holds the
\* marker, whose first engine run exited successfully and whose .bcf file exists;
\* when one of the three fails, no fingerprint is computed and the tool is not run
C11_ToolOnlyUnderThreeConditions ==
    \A w \in Started :
        /\ ToolInvoked(w) => BibConditions(w)
        /\ (PastBibGuard(w) /\ ~BibConditions(w)) =>
               /\ worker[w].current_bcf_hash = EmptyHash
               /\ worker[w].current_bib_hash = EmptyHash
               /\ worker[w].bcf_seen = "none" /\ worker[w].bib_seen = "none"
               /\ worker[w].biber = "none"
               /\ worker[w].engine_runs = 1

C11_Witness ==
    \E w \in Started :
        /\ Done(w) /\ worker[w].biber \in BiberResults /\ BibConditions(w)
        /\ worker[w].current_bcf_hash # EmptyHash

(* ---------------------------------------------------------------------- *)
(* Properties of the consumer and its workers (Spec)                       *)
(* ---------------------------------------------------------------------- *)

\* C2: no two compile workers are alive at the same time.
C2_NoOverlappingCompiles == Cardinality({ w \in Workers : Alive(w) }) <= 1

\* C3: if compile w2 is started when the last Success the consumer processed is that
\* of compile w1, and w2 reads in its bibliography phase the same .bcf and .bib
\* contents as w1 read in its own, then w2 skips the bibliography tool.
C3_SkipOnUnchangedContents ==
    \A w2 \in Started :
        LET w1 == worker[w2].after
        IN  ( /\ w1 # 0
              /\ worker[w2].bcf_seen \in BcfContents
              /\ worker[w1].bcf_seen = worker[w2].bcf_seen
              /\ worker[w1].bib_seen = worker[w2].bib_seen )
            => worker[w2].biber = "skipped"

\* a second compile that finds the contents of the first, and succeeds
C3_Witness ==
    \E w2 \in Started :
        /\ worker[w2].after # 0
        /\ worker[w2].bcf_seen \in BcfContents
        /\ worker[worker[w2].after].bcf_seen = worker[w2].bcf_seen
        /\ worker[worker[w2].after].bib_seen = worker[w2].bib_seen
        /\ Done(w2) /\ LastSent(w2) = "Success"

\* C5: a step changes last_bcf_hash or last_bib_hash only if it is the consumer
\* taking a Success message from the channel.
C5_FingerprintsChangeOnlyOnSuccess ==
    [][ (last_bcf_hash' # last_bcf_hash \/ last_bib_hash' # last_bib_hash) =>
            /\ compile_rx # <<>>
            /\ Head(compile_rx).type = "Success"
            /\ compile_rx' = Tail(compile_rx) ]_vars

\* the stored pair has been replaced, and a later compile has run to its Error
C5_Witness ==
    /\ last_bcf_hash # EmptyHash
    /\ \E w \in Started : Done(w) /\ LastSent(w) = "Error" /\ worker[w].after # 0
    /\ compile_rx = <<>>

(* ---------------------------------------------------------------------- *)
(* Properties of update() and its poll loop (SpecTick)                     *)
(* ---------------------------------------------------------------------- *)

\* C12: the consumer handles the messages of one worker in the order the worker
\* sent them: the i-th message it handles of a worker is the i-th that worker sent
C12_HandledInSendOrder ==
    \A w \in Workers :
        /\ Len(handled[w]) <= Len(worker[w].sent)
        /\ \A i \in 1..Len(handled[w]) : handled[w][i] = i

C12_Witness ==
    \E w \in Workers, v \in Workers :
        /\ w # v
        /\ Len(handled[w]) >= 3 /\ Len(handled[v]) >= 2
        /\ Len(MessagesOf(w, compile_rx)) >= 1
        /\ Len(MessagesOf(v, compile_rx)) >= 1
        /\ Head(compile_rx).w = v /\ compile_rx[Len(compile_rx)].w = w

\* the messages waiting in a channel
Waiting(chan) == { Id(chan[i]) : i \in 1..Len(chan) }

\* C13: inside its poll loop update() can always take a step of its own (a receive or
\* the end of the loop: it never waits for a thread), and when the loop ends none of
\* the messages that were in the channel when the loop began is still in the channel
C13_PollLoopDrainsWithoutBlocking ==
    /\ [](polling => ENABLED (PollRecv \/ PollEnd))
    /\ [][ (polling /\ ~polling') => (backlog \cap Waiting(compile_rx') = {}) ]_vars

C13_Witness ==
    /\ polling
    /\ Cardinality(backlog) >= 2
    /\ backlog \cap Waiting(compile_rx) = {}
    /\ compile_rx # <<>>
    /\ \E w \in Workers : Len(handled[w]) >= 2

(* ---------------------------------------------------------------------- *)
(* Properties of the snapshot taken by compile() (SpecSnapshot)            *)
(* ---------------------------------------------------------------------- *)

\* the values compile() clones for the thread
Snapshot(u) == << u.content, u.file_path, u.root_file, u.last_bcf_hash, u.last_bib_hash >>

\* C14: a thread works on the values the consumer held when compile() was called:
\* they never change afterwards, and what the thread writes, the target it compiles
\* and its decision to skip the bibliography tool follow from them, whatever the
\* consumer's text, root file and fingerprints have become
C14_WorkerUsesItsSnapshot ==
    [][ \A w \in Workers :
          LET old == worker[w]
              new == worker'[w]
          IN  /\ (old.pc = "unborn" /\ new.pc # "unborn") =>
                     Snapshot(new) = << editor_content', file_path', root_file',
                                        last_bcf_hash', last_bib_hash' >>
              /\ old.pc # "unborn" => Snapshot(new) = Snapshot(old)
              /\ new.written_content # None =>
                     /\ new.written_content = Some(CleanContent(new.content))
                     /\ new.written_path = SavePath(new.file_path)
              /\ new.target_path # "" =>
                     new.target_path = TargetPath(new.root_file, new.file_path)
              /\ (old.pc = "bib" /\ new.bcf_seen # "none") =>
                     ((new.biber = "skipped") =
                         SkipBiber(new.current_bcf_hash, new.current_bib_hash,
                                   new.last_bcf_hash, new.last_bib_hash))
      ]_vars

\* a thread has just decided to run the tool although the text, the root file and the
\* fingerprints of the consumer have changed since compile(), the latter to the very
\* fingerprints the thread computed
C14_Witness ==
    \E w \in Started :
        /\ worker[w].pc = "biber"
        /\ worker[w].written_content = Some(CleanContent(worker[w].content))
        /\ worker[w].content # editor_content
        /\ worker[w].root_file # root_file
        /\ worker[w].target_path # TargetPath(root_file, file_path)
        /\ << worker[w].last_bcf_hash, worker[w].last_bib_hash >> # << last_bcf_hash, last_bib_hash >>
        /\ SkipBiber(worker[w].current_bcf_hash, worker[w].current_bib_hash,
                     last_bcf_hash, last_bib_hash)

(* ---------------------------------------------------------------------- *)
(* Properties of the diagnostic parsing (SpecParse)                        *)
(* ---------------------------------------------------------------------- *)

\* the reading of  error: <path>:<line>: <message>  in which <line> is the number that
\* follows the path, i.e. the first ":<digits>: " after "error: "
FormCaptures(line) ==
    LET n == Len(line)
        s == CHOOSE x \in 1..n :
                 /\ ErrorAt(line, x) /\ \E k \in (x + 3)..n, d \in (x + 5)..n : NumberAt(line, k, d)
                 /\ \A y \in 1..(x - 1) :
                      ~(ErrorAt(line, y) /\ \E k \in (y + 3)..n, d \in (y + 5)..n : NumberAt(line, k, d))
        k == CHOOSE x \in (s + 3)..n :
                 /\ \E d \in (x + 2)..n : NumberAt(line, x, d)
                 /\ \A y \in (s + 3)..(x - 1) : ~\E d \in (y + 2)..n : NumberAt(line, y, d)
        d == CHOOSE x \in (k + 2)..n : NumberAt(line, k, x)
    IN  << SubSeq(line, k + 2, d), SubSeq(line, d + 3, n) >>

\* the diagnostics the form calls for: one per line of the form whose number parses
RECURSIVE FormDiagnostics(_, _)
FormDiagnostics(lines, target_path) ==
    IF lines = <<>> THEN <<>>
    ELSE LET line == Head(lines)
             rest == FormDiagnostics(Tail(lines), target_path)
         IN  IF Matches(line) /\ ParsesAsUsize(FormCaptures(line)[1])
             THEN << [ line    |-> DecimalValue(FormCaptures(line)[1]),
                       message |-> FormCaptures(line)[2],
                       file    |-> target_path ] >> \o rest
             ELSE rest

\* the diagnostics a thread has sent (<<>>: no Diagnostics message)
SentDiagnostics(w) ==
    LET ms == MessagesOf(w, compile_rx)
        is == { i \in 1..Len(ms) : ms[i].type = "Diagnostics" }
    IN  IF is = {} THEN <<>> ELSE ms[CHOOSE i \in is : TRUE].diags

\* C15: every line  error: <path>:<line>: <message>  of the engine's output gives one
\* Diagnostic with that line number, that message and the target path, every other
\* line gives none, and a line whose number does not parse is skipped
C15_OneDiagnosticPerErrorLine ==
    \A w \in Started :
        (worker[w].pc \in { "term", "done" } /\ worker[w].output.spawned) =>
            /\ Count(worker[w].sent, { "Diagnostics" }) <= 1
            /\ SentDiagnostics(w) =
                   FormDiagnostics(worker[w].output.stdout \o worker[w].output.stderr,
                                   worker[w].target_path)

(* ---------------------------------------------------------------------- *)
(* Properties of the two searches (SpecSearch)                             *)
(* ---------------------------------------------------------------------- *)

\* the index in the preview
Index == synctex[1]

\* the last search was a forward search / an inverse search
Forward == last_query # None /\ last_query[1].kind = "forward"

Inverse == last_query # None /\ last_query[1].kind = "inverse"

\* a record: a line with a file tag, a line number and a vertical coordinate
IsRecord(l) == l.kind = "record" /\ l.v # None

\* the page marker in force at position i, when no marker counts as page first
MarkerAt(index, i, first) ==
    LET ms == { j \in 1..(i - 1) : index[j].kind = "{" /\ index[j].page # None }
    IN  IF ms = {} THEN first
        ELSE index[CHOOSE j \in ms : \A k \in ms : k <= j].page[1]

\* the records of the index for line line_num of the file the open file resolves to
ForwardMatches(line_num) ==
    IF synctex = None \/ ResolveFileId(Index, FileName(file_path)) = None THEN {}
    ELSE { i \in 1..Len(Index) :
             /\ IsRecord(Index[i])
             /\ Index[i].file = ResolveFileId(Index, FileName(file_path))[1]
             /\ Index[i].line = line_num }

First(S) == CHOOSE i \in S : \A j \in S : i <= j

\* C16: a forward search uses a record exactly when the index has one for the resolved
\* file and the requested line; it then uses the first of them in stream order, and the
\* page it goes to is the page of the marker in force at that record (page index =
\* marker - 1), the position being computed from that record's coordinate
C16_ForwardUsesFirstMatch ==
    Forward =>
        LET q == last_query[1]
            ms == ForwardMatches(q.line_num)
        IN  /\ q.found = (ms # {})
            /\ ms # {} =>
                  /\ current_page + 1 = MarkerAt(Index, First(ms), 1)
                  /\ pending_scroll_target =
                         Some(<< current_page,
                                 RelY(Index[First(ms)].v[1], current_page, page_sizes) >>)

\* two records match, on different pages and at different heights, and the first is used
C16_Witness ==
    /\ Forward /\ last_query[1].found
    /\ LET ms == ForwardMatches(last_query[1].line_num)
       IN  \E i \in ms, j \in ms :
              /\ i = First(ms) /\ i < j
              /\ Index[i].v # Index[j].v
              /\ MarkerAt(Index, i, 1) = 1 /\ MarkerAt(Index, j, 1) = 2
              /\ current_page = 0
              /\ current_page \in DOMAIN page_sizes

\* C17: when a forward search uses a record and the height of its page is known, the
\* fraction it returns is v/65536 over the height brought into [0, 1]: it is never
\* negative and never above 1
C17_FractionWithinUnitInterval ==
    (Forward /\ last_query[1].found /\ current_page \in DOMAIN page_sizes
       /\ page_sizes[current_page] > 0) =>
        LET v == Index[First(ForwardMatches(last_query[1].line_num))].v[1]
            h == page_sizes[current_page]
            f == pending_scroll_target[1][2]
        IN  /\ 0 <= f[1] /\ f[1] <= f[2]
            /\ f = IF v < 0 THEN << 0, 1 >>
                   ELSE IF v > ScaledPerPoint * h THEN << 1, 1 >>
                   ELSE Frac(v, ScaledPerPoint * h)

\* the lines and pages a fallback estimate starts from
TotalLines == Max(LineCount(editor_content), 1)

\* C18 as stated: without a usable record a forward search goes to page
\* round(page_count * line / total_lines), at fraction 0.5
C18_Claimed ==
    (Forward /\ ~last_query[1].found) =>
        /\ current_page =
               (2 * page_count * last_query[1].line_num + TotalLines) \div (2 * TotalLines)
        /\ pending_scroll_target = Some(<< current_page, Half >>)

\* C18: without a usable record a forward search goes to page
\* floor(page_count * line / total_lines), limited to the last page (0 when there is no
\* page), at fraction 0.5
C18_FallbackTruncatesAndClamps ==
    (Forward /\ ~last_query[1].found) =>
        /\ current_page =
               Min((page_count * last_query[1].line_num) \div TotalLines,
                   IF page_count = 0 THEN 0 ELSE page_count - 1)
        /\ pending_scroll_target = Some(<< current_page, Half >>)
        /\ page_count > 0 => current_page < page_count

\* three pages, line 1 of 2: the quotient 1.5 is cut to page 1
C18_Witness ==
    /\ Forward /\ ~last_query[1].found
    /\ page_count = 3 /\ last_query[1].line_num = 1 /\ TotalLines = 2
    /\ current_page = 1
    /\ synctex # None

\* the click of the last inverse search, in scaled points from the top of its page
ClickYSp == TargetYSp(last_query[1].rel_y, page_sizes[last_query[1].page_idx])

\* the records an inverse search reads (kinds x, k, g, v, h) under the marker of page
\* number page
RecordsOnPage(page) ==
    { i \in 1..Len(Index) :
        /\ IsRecord(Index[i]) /\ Index[i].type \in InverseTypes
        /\ MarkerAt(Index, i, 0) = page }

\* those of them that lie less than 50 points from the click
Near(page) ==
    { i \in RecordsOnPage(page) :
        Abs(Index[i].v[1] - ClickYSp) < TolerancePoints * ScaledPerPoint }

\* those of them no other is nearer than
Nearest(page) ==
    { i \in Near(page) :
        \A j \in Near(page) :
            Abs(Index[i].v[1] - ClickYSp) <= Abs(Index[j].v[1] - ClickYSp) }

\* a double click on a page whose size is known, with an index to read
InverseWithIndex ==
    Inverse /\ synctex # None /\ last_query[1].page_idx \in DOMAIN page_sizes

\* C19: an inverse search looks only at the records under the marker of the clicked page
\* (page index + 1); when some of them lie less than 50 points from the click it goes to
\* the line of one that is nearest, and when none does it goes to the proportional
\* estimate
C19_InverseSelectsNearestOnPage ==
    InverseWithIndex =>
        LET q == last_query[1]
            page == q.page_idx + 1
        IN  IF Near(page) = {}
            THEN /\ ~q.found
                 /\ cursor = Some(FallbackLine(q.page_idx, q.rel_y, TotalLines, page_count))
            ELSE /\ q.found
                 /\ \E i \in Nearest(page) : q.best_line = Index[i].line

\* the record lines of the index, of any kind
RecordLines == { i \in 1..Len(Index) : Index[i].kind = "record" }

\* the only record of the index
TheRecord == Index[CHOOSE i \in RecordLines : TRUE]

\* the page marker over the only record (0: none)
ThePage == MarkerAt(Index, CHOOSE i \in RecordLines : TRUE, 0)

\* the position of the only record as a fraction of the height of its page
TheFraction == Frac(TheRecord.v[1], ScaledPerPoint * page_sizes[ThePage - 1])

\* an index with a single record (f, L, v) of the open file under the marker of page P,
\* L a line a forward search can be asked for (the first line is line 1), the height H
\* of that page known, 0 <= v/65536 <= H
SingleRecord ==
    /\ synctex # None
    /\ Cardinality(RecordLines) = 1
    /\ IsRecord(TheRecord)
    /\ TheRecord.line >= 1
    /\ ResolveFileId(Index, FileName(file_path)) = Some(TheRecord.file)
    /\ ThePage >= 1
    /\ (ThePage - 1) \in DOMAIN page_sizes
    /\ page_sizes[ThePage - 1] > 0
    /\ 0 <= TheRecord.v[1]
    /\ TheRecord.v[1] <= ScaledPerPoint * page_sizes[ThePage - 1]

\* a forward search for line L gave page P (index P - 1) and the fraction (v/65536)/H
ForwardLeg ==
    (Forward /\ last_query[1].line_num = TheRecord.line) =>
        /\ last_query[1].found
        /\ current_page = ThePage - 1
        /\ pending_scroll_target = Some(<< ThePage - 1, TheFraction >>)

\* a double click on page P at that fraction gave line L (the editor's line L - 1 when the
\* text has that line)
InverseLeg ==
    (Inverse /\ last_query[1].page_idx = ThePage - 1 /\ last_query[1].rel_y = TheFraction) =>
        /\ last_query[1].found
        /\ last_query[1].best_line = TheRecord.line
        /\ NewlineCount(editor_content) >= TheRecord.line - 1
              => cursor = Some(TheRecord.line - 1)

ForwardWithoutPageSize ==
    /\ Forward
    /\ ForwardMatches(last_query[1].line_num) # {}
    /\ SaturatingSub1(MarkerAt(Index, First(ForwardMatches(last_query[1].line_num)), 1))
           \notin DOMAIN page_sizes

\* the last search was a double click on a page whose size is not known
InverseWithoutPageSize ==
    Inverse /\ last_query[1].page_idx \notin DOMAIN page_sizes

\* the double click went to the proportional estimate
InverseFellBack ==
    /\ ~last_query[1].found
    /\ cursor = Some(FallbackLine(last_query[1].page_idx, last_query[1].rel_y,
                                  TotalLines, page_count))

\* C21 as stated: without the size of the page a search, forward or inverse, uses no
\* record and gives the proportional estimate
C21_Claimed ==
    /\ ForwardWithoutPageSize =>
          /\ ~last_query[1].found
          /\ current_page = FallbackPage(last_query[1].line_num, TotalLines, page_count)
          /\ pending_scroll_target = Some(<< current_page, Half >>)
    /\ InverseWithoutPageSize => InverseFellBack

\* C21: without the size of the page an inverse search uses no record and gives the
\* proportional estimate; a forward search still goes to the page of the first matching
\* record, and only its fraction is the default 0.5
C21_OnlyInverseFallsBack ==
    /\ ForwardWithoutPageSize =>
          /\ last_query[1].found
          /\ current_page + 1 =
                 MarkerAt(Index, First(ForwardMatches(last_query[1].line_num)), 1)
          /\ pending_scroll_target = Some(<< current_page, Half >>)
    /\ InverseWithoutPageSize => InverseFellBack

\* a forward search for line 2 used a record of page 2, whose size is not known, where
\* the estimate would have been page 3
C21_Witness ==
    /\ ForwardWithoutPageSize
    /\ last_query[1].line_num = 2 /\ page_count = 3
    /\ current_page = 1
    /\ FallbackPage(2, TotalLines, page_count) = 2
    /\ pending_scroll_target = Some(<< 1, Half >>)

(* ---------------------------------------------------------------------- *)
(* Properties of the write path (SpecWrite, SpecWorker)                    *)
(* ---------------------------------------------------------------------- *)

\* the threads whose write succeeded
Wrote == { w \in Workers : worker[w].written_content # None }

\* the text thread w wrote
Written(w) == worker[w].written_content[1]

EngineRan == { w \in Workers : worker[w].engine_runs > 0 }

\* C23 as stated: the file a thread writes before the engine runs is the file it passes
\* to the engine, whatever the open file and the root file are
C23_Claimed ==
    \A w \in EngineRan : worker[w].written_path = worker[w].engine_arg

\* C23: a thread writes the text without its leading byte-order-marks to the open file
\* ("temp.tex" when no file is open) and passes the root file to the engine when one is
\* set, the written file otherwise; the two are the same file exactly when no root file
\* is set or the root file is the written file
C23_WritesOpenFileCompilesRoot ==
    \A w \in EngineRan :
        LET u == worker[w]
            open == IF u.file_path = "" THEN "temp.tex" ELSE u.file_path
        IN  /\ u.written_path = open
            /\ u.written_content = Some(CleanContent(u.content))
            /\ u.engine_arg = IF u.root_file # None THEN u.root_file[1] ELSE open
            /\ (u.written_path = u.engine_arg) = (u.root_file = None \/ u.root_file[1] = open)

\* with a root file set the text of doc.tex was written to doc.tex and the engine was
\* run on main.tex
C23_Witness ==
    \E w \in EngineRan :
        /\ worker[w].root_file = Some(RootPath)
        /\ worker[w].file_path = "doc.tex"
        /\ worker[w].written_path = "doc.tex"
        /\ worker[w].engine_arg = "main.tex"
        /\ worker[w].engine_runs = 2

(* ---------------------------------------------------------------------- *)
(* The place of the diagnostics in the stream (SpecWorker)                 *)
(* ---------------------------------------------------------------------- *)

\* the messages thread w has sent (nothing is received in SpecWorker)
Stream(w) == MessagesOf(w, compile_rx)

\* the Log messages of the bibliography phase
BibLogs ==
    { "Citations unchanged.", "Citations changed. Processing bibliography with Biber...",
      "Biber warning/error: ", "Failed to execute Biber.",
      "Re-compiling document to link citations..." }

\* the positions of the Diagnostics messages / of the bibliography Log messages
DiagAt(w) == { i \in 1..Len(Stream(w)) : Stream(w)[i].type = "Diagnostics" }

BibLogAt(w) ==
    { i \in 1..Len(Stream(w)) : Stream(w)[i].type = "Log" /\ Stream(w)[i].text \in BibLogs }

\* the threads that are past the parsing of the output
Parsed == { w \in Workers : worker[w].pc \in { "term", "done" } }

\* what the parser makes of an output
DiagnosticsOf(w, o) ==
    IF o.spawned THEN ParseDiagnostics(o.stdout \o o.stderr, worker[w].target_path) ELSE <<>>

\* C24 as stated: when the output of the first engine run has an error line, a
\* Diagnostics message for it is sent, and it is sent before any Log message of the
\* bibliography phase
C24_Claimed ==
    \A w \in Parsed :
        DiagnosticsOf(w, worker[w].first_output) # <<>> =>
            \E i \in DiagAt(w) :
                /\ Stream(w)[i].diags = DiagnosticsOf(w, worker[w].first_output)
                /\ \A j \in BibLogAt(w) : i < j

\* C24: the output is parsed once, after the bibliography phase, and it is the output of
\* the last engine run: a Diagnostics message is sent exactly when the parser finds
\* something in that output, it carries what the parser found, and every Log message of
\* the bibliography phase precedes it
C24_DiagnosticsOfLastRunAfterBibPhase ==
    \A w \in Parsed :
        /\ Cardinality(DiagAt(w)) <= 1
        /\ (DiagAt(w) # {}) = (DiagnosticsOf(w, worker[w].output) # <<>>)
        /\ \A i \in DiagAt(w) :
              /\ Stream(w)[i].diags = DiagnosticsOf(w, worker[w].output)
              /\ \A j \in BibLogAt(w) : j < i

\* the first run printed an error line, the tool ran, the second run printed none: no
\* Diagnostics message was sent
C24_Witness ==
    \E w \in Parsed :
        /\ worker[w].pc = "done"
        /\ DiagnosticsOf(w, worker[w].first_output) # <<>>
        /\ worker[w].engine_runs = 2
        /\ DiagnosticsOf(w, worker[w].output) = <<>>
        /\ BibLogAt(w) # {}
        /\ DiagAt(w) = {}

(* ---------------------------------------------------------------------- *)
(* Page markers (SpecSearch)                                               *)
(* ---------------------------------------------------------------------- *)

\* C25: in both directions a record belongs to the page of the last '{' line with a
\* number before it, '{' lines without a number being passed over: a forward search goes
\* to the page of that marker for the record it uses, and an inverse search takes its
\* line only from a record near the click whose marker is the number of the clicked page
C25_RecordsBelongToLastMarker ==
    /\ (Forward /\ last_query[1].found) =>
          current_page =
              SaturatingSub1(MarkerAt(Index, First(ForwardMatches(last_query[1].line_num)), 1))
    /\ (Inverse /\ last_query[1].found) =>
          \E i \in Near(last_query[1].page_idx + 1) :
              /\ Index[i].line = last_query[1].best_line
              /\ MarkerAt(Index, i, 0) = last_query[1].page_idx + 1

\* the index is '{2', a '{' line without a number, then a record of line 2: a forward
\* search for line 2 went to page 2 and a double click on page 2 found line 2
C25_Witness ==
    /\ Inverse /\ last_query[1].found
    /\ last_query[1].page_idx = 1 /\ last_query[1].best_line = 2
    /\ pending_scroll_target = Some(<< 1, << 1, 20 >> >>)
    /\ ForwardMatches(2) # {}
    /\ \E i \in 2..(Len(Index) - 1) :
          /\ Index[i - 1] = PageLine(Some(2))
          /\ Index[i] = PageLine(None)
          /\ RecordLines = { i + 1 }
          /\ i + 1 \in ForwardMatches(2)

(* ---------------------------------------------------------------------- *)
(* The flag is_compiling (SpecTick)                                        *)
(* ---------------------------------------------------------------------- *)

\* the consumer has handled the terminal message of thread w
TerminalHandled(w) ==
    /\ worker[w].pc = "done"
    /\ \E i \in 1..Len(handled[w]) : handled[w][i] = Len(worker[w].sent)

\* the threads that compile() has spawned and whose terminal message is not handled yet
Outstanding == { w \in Started : ~TerminalHandled(w) }

\* C26: is_compiling is true whenever a thread is outstanding
C26_FlagWhileOutstanding == Outstanding # {} => is_compiling

\* every thread that was spawned is through and nothing waits in the channel
AllDoneAndDrained ==
    /\ Started # {}
    /\ \A w \in Started : Done(w)
    /\ compile_rx = <<>>

\* C27: when the child processes return and update() keeps being called, the terminal
\* message of every thread that was spawned is handled in the end, and once every
\* spawned thread is through and the channel is empty is_compiling is false
C27_EveryCompileIsHandled ==
    /\ \A w \in Workers : (worker[w].pc # "unborn") ~> TerminalHandled(w)
    /\ [](AllDoneAndDrained => ~is_compiling)

\* two compiles overlapped, the first ended with an Error, both terminal messages were
\* handled and the flag is down
C27_Witness ==
    /\ AllDoneAndDrained
    /\ Started = { 1, 2 }
    /\ \A w \in Started : TerminalHandled(w)
    /\ LastSent(1) = "Error"
    /\ ~is_compiling
    /\ ~polling

(* ---------------------------------------------------------------------- *)
(* Skipping the bibliography tool (Spec)                                   *)
(* ---------------------------------------------------------------------- *)

\* thread v ran the bibliography tool to a zero exit status for the fingerprints of w
RanToolFor(v, w) ==
    /\ worker[v].biber = "ok"
    /\ worker[v].current_bcf_hash = worker[w].current_bcf_hash
    /\ worker[v].current_bib_hash = worker[w].current_bib_hash

\* C28: a thread skips the bibliography tool only if another thread has run the tool to
\* completion for the same pair of fingerprints
C28_SkipOnlyAfterToolRan ==
    \A w \in Started :
        worker[w].biber = "skipped" => \E v \in Started \ { w } : RanToolFor(v, w)

(* ---------------------------------------------------------------------- *)
(* The file of the records (SpecSearch)                                    *)
(* ---------------------------------------------------------------------- *)

\* the records of the file the open file is registered as, with line number line
RecordsOfOpenFile(line) ==
    LET fid == ResolveFileId(Index, FileName(file_path))
    IN  IF fid = None THEN {}
        ELSE { i \in 1..Len(Index) :
                 IsRecord(Index[i]) /\ Index[i].file = fid[1] /\ Index[i].line = line }

\* C29: the line an inverse search goes to is the line of a record of the open file
C29_InverseUsesOpenFileOnly ==
    (Inverse /\ last_query[1].found) => RecordsOfOpenFile(last_query[1].best_line) # {}

(* ---------------------------------------------------------------------- *)
(* The page a forward search selects (SpecSearch)                          *)
(* ---------------------------------------------------------------------- *)

\* C30: after a forward search the selected page, in current_page and in the pending
\* scroll target, is a page of the loaded PDF whenever the PDF has pages
C30_ForwardPageWithinDocument ==
    (Forward /\ page_count > 0) =>
        /\ current_page < page_count
        /\ pending_scroll_target # None
        /\ pending_scroll_target[1][1] < page_count

====
